---- MODULE Spec2Model ----
(***************************************************************************)
(* Personal finance tracker: the transaction repository of the server      *)
(* (REST handlers over the key-value store, receipt processing included),  *)
(* the analytics aggregation (server GET /analytics and client             *)
(* calculateAnalytics), the values they compute on, and the client (App,   *)
(* TransactionForm, ReceiptScanner) with its local-storage fallback.       *)
(* Specifications: SpecAgg (aggregation), Spec (server, POST bodies of     *)
(* every form), SpecStore (server, history of deletes), SpecReceipt        *)
(* (POST /process-receipt), SpecClient (client, each handler run to its    *)
(* end), SpecLocal (client in local mode, history of deletes), SpecAsync   *)
(* (client in server mode, requests in flight), SpecScanner                *)
(* (ReceiptScanner), SpecHistory (TransactionHistory).                     *)
(*                                                                         *)
(* JavaScript values whose kind varies at run time (a request field, an    *)
(* amount, a property of an accumulator object) are tagged records:        *)
(*   Num(n), NaN, Null, Undef, Str(s), Chs(cs), Fn(name), ProtoObj.        *)
(* Str holds one of the strings of the model's universe (a TLA+ string);   *)
(* Chs holds the characters of a string built by concatenation.            *)
(***************************************************************************)
EXTENDS Integers, Sequences, FiniteSets, TLC

VARIABLES
    kv,          \* the record store: key -> stored JSON value
    now,         \* the clock (Date.now()), in milliseconds
    resp,        \* the last request handled by the server and its answer
    created,     \* history: the successful creates whose id was not deleted since
    deleted,     \* history: the DELETEs answered 200 (id, whether a record was removed)
    appTransactions,   \* client: the transactions state of App
    useLocalStorage,   \* client: the useLocalStorage state of App
    localStorage,      \* client: the item finbud_transactions of the browser
    connectionError,   \* client: the connectionError state of App
    showingLocalMode,  \* client: the showingLocalMode state of App
    analytics,         \* client: the analytics state of App
    loading,           \* client: the loading state of App
    ui,                \* client: the last operation of the user and its outcome
    removed,           \* client history: the ids deleted in local mode, not added since
    pending,           \* client: the requests in flight
    scanner,           \* client: the state of ReceiptScanner and its file input
    history,           \* client: the props and state of TransactionHistory, what it shows
    input,       \* SpecAgg: the transaction sequence handed to the aggregation
    serverOut,   \* SpecAgg: body of the last GET /analytics answer over input
    clientOut    \* SpecAgg: last value returned by calculateAnalytics(input)

aggVars == <<input, serverOut, clientOut>>
srvVars == <<kv, now, resp, created>>
appVars == <<appTransactions, useLocalStorage, localStorage, connectionError,
             showingLocalMode, analytics, loading, ui>>
cliVars == <<appVars, removed, pending, scanner, history>>
vars == <<kv, now, resp, created, deleted, appTransactions, useLocalStorage,
          localStorage, connectionError, showingLocalMode, analytics, loading,
          ui, removed, pending, scanner, history, input, serverOut, clientOut>>

(***************************************************************************)
(* Bounds of the model.                                                    *)
(***************************************************************************)
MaxLen == 3
MaxClock == 2
MaxCreates == 2

(***************************************************************************)
(* JavaScript values.                                                      *)
(***************************************************************************)
Num(n) == [k |-> "num", n |-> n]
NaN == [k |-> "nan"]
Null == [k |-> "null"]
Undef == [k |-> "undef"]
Str(s) == [k |-> "str", s |-> s]
Chs(cs) == [k |-> "chs", cs |-> cs]
Fn(name) == [k |-> "fn", name |-> name]
ProtoObj == [k |-> "proto"]
None == [k |-> "none"]

\* useState<Analytics>({...}): nothing counted yet.
initialAnalytics ==
    [totalIncome |-> Num(0), totalExpense |-> Num(0), balance |-> Num(0),
     expensesByCategory |-> <<>>, monthlyData |-> <<>>]

\* The client before App is mounted: the initial values of its state.
ClientNotStarted ==
    /\ appTransactions = <<>>
    /\ useLocalStorage = TRUE
    /\ localStorage = None
    /\ connectionError = ""
    /\ showingLocalMode = TRUE
    /\ analytics = initialAnalytics
    /\ loading = TRUE
    /\ ui = None
    /\ removed = {}
    /\ pending = {}
    /\ scanner = None
    /\ history = None

\* The strings of the model, spelled character by character.
Chars(s) ==
    CASE s = "" -> <<>>
      [] s = "2024-01-05" -> <<"2","0","2","4","-","0","1","-","0","5">>
      [] s = "2024-01-10" -> <<"2","0","2","4","-","0","1","-","1","0">>
      [] s = "2024-02-01" -> <<"2","0","2","4","-","0","2","-","0","1">>
      [] s = "2024-01" -> <<"2","0","2","4","-","0","1">>
      [] s = "2023-12" -> <<"2","0","2","3","-","1","2">>
      [] s = "2024-01-01" -> <<"2","0","2","4","-","0","1","-","0","1">>
      [] s = "2024-01-15" -> <<"2","0","2","4","-","0","1","-","1","5">>
      [] s = "2024-01-18" -> <<"2","0","2","4","-","0","1","-","1","8">>
      [] s = "2024-01-20" -> <<"2","0","2","4","-","0","1","-","2","0">>
      [] s = "2024-01-22" -> <<"2","0","2","4","-","0","1","-","2","2">>
      [] s = "2023-12-01" -> <<"2","0","2","3","-","1","2","-","0","1">>
      [] s = "2023-12-12" -> <<"2","0","2","3","-","1","2","-","1","2">>
      [] s = "2023-12-25" -> <<"2","0","2","3","-","1","2","-","2","5">>
      [] s = "2024-02" -> <<"2","0","2","4","-","0","2">>
      [] s = "income" -> <<"i","n","c","o","m","e">>
      [] s = "expense" -> <<"e","x","p","e","n","s","e">>
      [] s = "2024" -> <<"2","0","2","4">>
      [] s = "food" -> <<"f","o","o","d">>
      [] s = "salary" -> <<"s","a","l","a","r","y">>
      [] s = "lunch" -> <<"l","u","n","c","h">>
      [] s = "manual" -> <<"m","a","n","u","a","l">>
      [] s = "200" -> <<"2","0","0">>
      [] s = "abc" -> <<"a","b","c">>
      [] s = "constructor" -> <<"c","o","n","s","t","r","u","c","t","o","r">>

Universe ==
    {"", "2024-01-05", "2024-01-10", "2024-02-01", "2024-01", "2024-02",
     "2023-12", "2024-01-01", "2024-01-15", "2024-01-18", "2024-01-20",
     "2024-01-22", "2023-12-01", "2023-12-12", "2023-12-25",
     "2024", "income", "expense", "food", "salary", "constructor",
     "lunch", "manual", "200", "abc"}

StrOf(cs) == CHOOSE s \in Universe : Chars(s) = cs

Min(a, b) == IF a < b THEN a ELSE b

\* Mutant: the bucket key cut after the year.
substringYear(s, from, to) ==
    StrOf(SubSeq(Chars(s), from + 1, Min(4, Len(Chars(s)))))

\* String.prototype.substring(from, to), 0-based, end exclusive.
substring(s, from, to) ==
    StrOf(SubSeq(Chars(s), from + 1, Min(to, Len(Chars(s)))))

\* Collation rank of a character: position in Alphabet.
Alphabet ==
    <<"-", "0", "1", "2", "3", "4", "5", "6", "7", "8", "9",
      "a", "b", "c", "d", "e", "f", "g", "h", "i", "j", "k", "l", "m",
      "n", "o", "p", "q", "r", "s", "t", "u", "v", "w", "x", "y", "z">>

Rank(c) == CHOOSE i \in 1..Len(Alphabet) : Alphabet[i] = c

RECURSIVE CompareChars(_, _)
CompareChars(a, b) ==
    IF a = <<>> /\ b = <<>> THEN 0
    ELSE IF a = <<>> THEN -1
    ELSE IF b = <<>> THEN 1
    ELSE IF Rank(Head(a)) < Rank(Head(b)) THEN -1
    ELSE IF Rank(Head(a)) > Rank(Head(b)) THEN 1
    ELSE CompareChars(Tail(a), Tail(b))


\* Decimal digits of a natural number, as characters.
DigitChar(d) == Alphabet[d + 2]

RECURSIVE NatChars(_)
NatChars(n) ==
    IF n < 10 THEN <<DigitChar(n)>>
    ELSE NatChars(n \div 10) \o <<DigitChar(n % 10)>>

\* ToString of a JavaScript value.
ToStringChars(v) ==
    CASE v.k = "num" -> IF v.n < 0 THEN <<"-">> \o NatChars(-v.n) ELSE NatChars(v.n)
      [] v.k = "nan" -> <<"NaN">>
      [] v.k = "null" -> <<"null">>
      [] v.k = "undef" -> <<"undefined">>
      [] v.k = "str" -> Chars(v.s)
      [] v.k = "chs" -> v.cs
      [] v.k = "fn" -> <<"function ", v.name, "() { [native code] }">>
      [] v.k = "proto" -> <<"[object Object]">>

\* String.prototype.localeCompare of two string values: negative, 0 or positive.
localeCompare(a, b) == CompareChars(ToStringChars(a), ToStringChars(b))

\* ToNumber of a primitive that is no string.
IsNaNValue(v) == v.k \in {"nan", "undef"}
ToInt(v) == IF v.k = "num" THEN v.n ELSE 0

\* The binary + operator: concatenation when either operand is (or converts
\* to) a string, numeric addition otherwise.
JsAdd(a, b) ==
    IF a.k \in {"str", "chs", "fn", "proto"} \/ b.k \in {"str", "chs", "fn", "proto"}
    THEN Chs(ToStringChars(a) \o ToStringChars(b))
    ELSE IF IsNaNValue(a) \/ IsNaNValue(b) THEN NaN
    ELSE Num(ToInt(a) + ToInt(b))

\* Mutant: the operands of the subtraction swapped.
JsSubSwapped(a, b) ==
    IF a.k \notin {"num", "null"} \/ b.k \notin {"num", "null"} THEN NaN
    ELSE Num(ToInt(b) - ToInt(a))

\* The binary - operator on numbers.
JsSub(a, b) ==
    IF a.k \notin {"num", "null"} \/ b.k \notin {"num", "null"} THEN NaN
    ELSE Num(ToInt(a) - ToInt(b))

\* Truthiness (an object, which carries no tag, is truthy).
Falsy(v) ==
    /\ "k" \in DOMAIN v
    /\ \/ v.k \in {"undef", "null", "nan"}
       \/ v.k = "num" /\ v.n = 0
       \/ v.k = "str" /\ v.s = ""
       \/ v.k = "chs" /\ v.cs = <<>>

\* a || b
JsOr(a, b) == IF Falsy(a) THEN b ELSE a

(***************************************************************************)
(* Plain objects used as maps ({}): own properties in insertion order,     *)
(* reads fall through to Object.prototype.                                 *)
(***************************************************************************)
EmptyObject == [keys |-> <<>>, vals |-> <<>>]

ObjectPrototype ==
    [constructor |-> Fn("Object"), toString |-> Fn("toString"),
     valueOf |-> Fn("valueOf"), hasOwnProperty |-> Fn("hasOwnProperty")]

HasOwn(obj, key) == \E i \in 1..Len(obj.keys) : obj.keys[i] = key

IndexOf(obj, key) == CHOOSE i \in 1..Len(obj.keys) : obj.keys[i] = key

\* obj[key]
ObjGet(obj, key) ==
    IF HasOwn(obj, key) THEN obj.vals[IndexOf(obj, key)]
    ELSE IF key = "__proto__" THEN ProtoObj
    ELSE IF key \in DOMAIN ObjectPrototype THEN ObjectPrototype[key]
    ELSE Undef

\* obj[key] = v (the __proto__ setter ignores a value that is no object)
ObjSet(obj, key, v) ==
    IF HasOwn(obj, key)
    THEN [obj EXCEPT !.vals[IndexOf(obj, key)] = v]
    ELSE IF key = "__proto__" THEN obj
    ELSE [keys |-> Append(obj.keys, key), vals |-> Append(obj.vals, v)]

\* The mapping an object denotes: own key -> value.
ObjMap(obj) ==
    [key \in {obj.keys[i] : i \in 1..Len(obj.keys)} |-> obj.vals[IndexOf(obj, key)]]

\* Array.prototype.sort((a, b) => a.month.localeCompare(b.month)): stable.
RECURSIVE InsertByMonth(_, _)
InsertByMonth(sorted, e) ==
    IF sorted = <<>> THEN <<e>>
    ELSE IF localeCompare(ObjGet(Head(sorted), "month"), ObjGet(e, "month")) <= 0
         THEN <<Head(sorted)>> \o InsertByMonth(Tail(sorted), e)
         ELSE <<e>> \o sorted

\* Mutant: the entries left in insertion order.
SortByMonthNone(entries) == entries

RECURSIVE SortByMonth(_)
SortByMonth(entries) ==
    IF entries = <<>> THEN <<>>
    ELSE InsertByMonth(SortByMonth(SubSeq(entries, 1, Len(entries) - 1)),
                       entries[Len(entries)])

\* The entries of a sequence of objects, each as its mapping.
MapsOf(entries) == [i \in 1..Len(entries) |-> ObjMap(entries[i])]

\* { month, income: 0, expense: 0 }
NewMonthEntry(month) ==
    [keys |-> <<"month", "income", "expense">>,
     vals |-> <<Str(month), Num(0), Num(0)>>]

(***************************************************************************)
(* Client: calculateAnalytics(transactions).                               *)
(***************************************************************************)
\* .filter(t => t.type === ty)
cliFilterType(transactions, ty) == SelectSeq(transactions, LAMBDA t : t.type = ty)

\* Mutant: reduce without its initial value.
RECURSIVE cliSumFrom(_, _)
cliSumFrom(ts, sum) ==
    IF ts = <<>> THEN sum
    ELSE cliSumFrom(Tail(ts), JsAdd(sum, Head(ts).amount))

cliSumNoInit(ts, sum) ==
    IF ts = <<>> THEN Undef ELSE cliSumFrom(Tail(ts), Head(ts).amount)

\* .reduce((sum, t) => sum + t.amount, 0)
RECURSIVE cliSum(_, _)
cliSum(ts, sum) ==
    IF ts = <<>> THEN sum
    ELSE cliSum(Tail(ts), JsAdd(sum, Head(ts).amount))

\* .reduce((acc, t) => { acc[t.category] = (acc[t.category] || 0) + t.amount; return acc }, {})
RECURSIVE cliByCategory(_, _)
cliByCategory(ts, acc) ==
    IF ts = <<>> THEN acc
    ELSE LET t == Head(ts)
         IN cliByCategory(Tail(ts),
                ObjSet(acc, t.category,
                       JsAdd(JsOr(ObjGet(acc, t.category), Num(0)), t.amount)))

\* .reduce((acc, t) => { const month = t.date.substring(0, 7); if (!acc[month]) {...};
\*                       acc[month][t.type] += t.amount; return acc }, {})
RECURSIVE cliByMonth(_, _)
cliByMonth(ts, acc) ==
    IF ts = <<>> THEN acc
    ELSE LET t == Head(ts)
             month == substring(t.date, 0, 7)
             acc1 == IF Falsy(ObjGet(acc, month))
                     THEN ObjSet(acc, month, NewMonthEntry(month))
                     ELSE acc
             entry == ObjGet(acc1, month)
         IN cliByMonth(Tail(ts),
                IF HasOwn(acc1, month)
                THEN ObjSet(acc1, month,
                            ObjSet(entry, t.type, JsAdd(ObjGet(entry, t.type), t.amount)))
                ELSE acc1)

calculateAnalytics(transactions) ==
    LET totalIncome == cliSum(cliFilterType(transactions, "income"), Num(0))
        totalExpense == cliSum(cliFilterType(transactions, "expense"), Num(0))
        expensesByCategory ==
            cliByCategory(cliFilterType(transactions, "expense"), EmptyObject)
        monthlyData == cliByMonth(transactions, EmptyObject)
    IN [totalIncome |-> totalIncome,
        totalExpense |-> totalExpense,
        balance |-> JsSub(totalIncome, totalExpense),
        expensesByCategory |-> ObjMap(expensesByCategory),
        monthlyData |-> MapsOf(SortByMonth(monthlyData.vals))]

(***************************************************************************)
(* Server: GET /analytics over the items of kv.getByPrefix('transaction:') *)
(***************************************************************************)
\* transactions.map(item => item.value)
srvValues(items) == [i \in 1..Len(items) |-> items[i].value]

\* Mutant: the type compared in another letter case.
srvFilterTypeCase(transactionData, ty) ==
    SelectSeq(transactionData, LAMBDA t : t.type = "Income" /\ ty = "income")

\* .filter(t => t.type === ty)
srvFilterType(transactionData, ty) == SelectSeq(transactionData, LAMBDA t : t.type = ty)

\* .reduce((sum, t) => sum + t.amount, 0)
RECURSIVE srvSum(_, _)
srvSum(ts, sum) ==
    IF ts = <<>> THEN sum
    ELSE srvSum(Tail(ts), JsAdd(sum, Head(ts).amount))

\* .reduce((acc, t) => { acc[t.category] = (acc[t.category] || 0) + t.amount; return acc }, {})
RECURSIVE srvByCategory(_, _)
srvByCategory(ts, acc) ==
    IF ts = <<>> THEN acc
    ELSE LET t == Head(ts)
             old == JsOr(ObjGet(acc, t.category), Num(0))
         IN srvByCategory(Tail(ts), ObjSet(acc, t.category, JsAdd(old, t.amount)))

\* .reduce((acc, t) => { const month = t.date.substring(0, 7); if (!acc[month]) {...};
\*                       acc[month][t.type] += t.amount; return acc }, {})
RECURSIVE srvByMonth(_, _)
srvByMonth(ts, acc) ==
    IF ts = <<>> THEN acc
    ELSE LET t == Head(ts)
             month == substring(t.date, 0, 7)
             acc1 == IF Falsy(ObjGet(acc, month))
                     THEN ObjSet(acc, month, NewMonthEntry(month))
                     ELSE acc
             entry == ObjGet(acc1, month)
         IN srvByMonth(Tail(ts),
                IF HasOwn(acc1, month)
                THEN ObjSet(acc1, month,
                            ObjSet(entry, t.type, JsAdd(ObjGet(entry, t.type), t.amount)))
                ELSE acc1)

\* c.json(...): JSON.stringify writes NaN as null; the other values of a
\* response (numbers, strings) are written as they are.
JsonValue(v) == IF v.k = "nan" THEN Null ELSE v

JsonMap(m) == [key \in DOMAIN m |-> JsonValue(m[key])]

GetAnalytics(items) ==
    LET transactionData == srvValues(items)
        totalIncome == srvSum(srvFilterType(transactionData, "income"), Num(0))
        totalExpense == srvSum(srvFilterType(transactionData, "expense"), Num(0))
        expensesByCategory ==
            srvByCategory(srvFilterType(transactionData, "expense"), EmptyObject)
        monthlyData == srvByMonth(transactionData, EmptyObject)
        sorted == MapsOf(SortByMonth(monthlyData.vals))
    IN [totalIncome |-> JsonValue(totalIncome),
        totalExpense |-> JsonValue(totalExpense),
        balance |-> JsonValue(JsSub(totalIncome, totalExpense)),
        expensesByCategory |-> JsonMap(ObjMap(expensesByCategory)),
        monthlyData |-> [i \in 1..Len(sorted) |-> JsonMap(sorted[i])]]

(***************************************************************************)
(* SpecAgg: the aggregation as a function of its input.  Init draws the    *)
(* transaction sequence; the actions apply the two implementations.        *)
(***************************************************************************)
\* Transactions as the Transaction interface types them (type is income or
\* expense, amount a number, category any string, date YYYY-MM-DD); only the
\* fields the aggregation reads are carried.
AggIncomes ==
    [type : {"income"}, amount : {Num(1000)}, category : {"salary", "food"},
     date : {"2024-01-05", "2024-02-01"}]

AggExpenses ==
    [type : {"expense"}, amount : {Num(50), Num(200)},
     category : {"food", "constructor"}, date : {"2024-01-10", "2024-02-01"}]

AggTransactions == AggIncomes \cup AggExpenses

SeqsUpTo(S, n) == UNION {[1..m -> S] : m \in 0..n}

\* The stored items a transaction sequence is read from.
ItemsOf(transactions) ==
    [i \in 1..Len(transactions) |->
        [key |-> <<"transaction:">> \o NatChars(i), value |-> transactions[i]]]

InitAgg ==
    /\ input \in SeqsUpTo(AggTransactions, MaxLen)
    /\ serverOut = None
    /\ clientOut = None
    /\ kv = <<>>
    /\ now = 1
    /\ resp = None
    /\ created = {}
    /\ deleted = {}
    /\ ClientNotStarted

AggServer ==
    /\ serverOut' = GetAnalytics(ItemsOf(input))
    /\ UNCHANGED <<input, clientOut>>
    /\ UNCHANGED <<srvVars, deleted, cliVars>>

AggClient ==
    /\ clientOut' = calculateAnalytics(input)
    /\ UNCHANGED <<input, serverOut>>
    /\ UNCHANGED <<srvVars, deleted, cliVars>>

NextAgg == AggServer \/ AggClient

SpecAgg == InitAgg /\ [][NextAgg]_vars

(***************************************************************************)
(* Properties of the aggregation, checked under SpecAgg.                   *)
(***************************************************************************)
IncomeIdx(ts) == {i \in 1..Len(ts) : ts[i].type = "income"}
ExpenseIdx(ts) == {i \in 1..Len(ts) : ts[i].type = "expense"}

\* Sum of the amounts of the transactions at the positions S.
RECURSIVE SumAt(_, _)
SumAt(S, ts) ==
    IF S = {} THEN 0
    ELSE LET i == CHOOSE j \in S : TRUE
         IN ts[i].amount.n + SumAt(S \ {i}, ts)

\* The answers computed so far.
Outs == {o \in {serverOut, clientOut} : o # None}

BothComputed == serverOut # None /\ clientOut # None

\* The three-transaction scenario of the specification.
Scenario ==
    << [type |-> "income", amount |-> Num(1000), category |-> "salary",
        date |-> "2024-01-05"],
       [type |-> "expense", amount |-> Num(200), category |-> "food",
        date |-> "2024-01-10"],
       [type |-> "expense", amount |-> Num(50), category |-> "food",
        date |-> "2024-02-01"] >>

\* C1: every answer of the aggregation has totalIncome = the sum of amount
\* over the income transactions, totalExpense = the sum of amount over the
\* expense transactions, and balance = totalIncome - totalExpense.
C1_BalanceIsIncomeMinusExpense ==
    \A o \in Outs :
        /\ o.totalIncome = Num(SumAt(IncomeIdx(input), input))
        /\ o.totalExpense = Num(SumAt(ExpenseIdx(input), input))
        /\ o.balance.k = "num"
        /\ o.balance.n = o.totalIncome.n - o.totalExpense.n

C1_Witness ==
    /\ BothComputed
    /\ input = Scenario
    /\ serverOut.balance = Num(750)
    /\ clientOut.balance = Num(750)

\* Sum of the values of a mapping; no number when a value is no number.
RECURSIVE SumValues(_, _)
SumValues(m, keys) ==
    IF keys = {} THEN Num(0)
    ELSE LET key == CHOOSE x \in keys : TRUE
             rest == SumValues(m, keys \ {key})
         IN IF m[key].k = "num" /\ rest.k = "num" THEN Num(m[key].n + rest.n)
            ELSE NaN

\* C2: in every answer of the aggregation the values of expensesByCategory
\* sum to totalExpense.
C2_CategorySumIsTotalExpense ==
    \A o \in Outs :
        SumValues(o.expensesByCategory, DOMAIN o.expensesByCategory) = o.totalExpense

\* The 7-character prefixes of the dates of the input.
Prefix7(date) == SubSeq(Chars(date), 1, Min(7, Len(Chars(date))))
InputMonths == {Prefix7(input[i].date) : i \in 1..Len(input)}

StartsWith(date, prefix) ==
    /\ Len(Chars(date)) >= Len(prefix)
    /\ SubSeq(Chars(date), 1, Len(prefix)) = prefix

\* C3: monthlyData has exactly one entry per distinct YYYY-MM prefix of the
\* input dates, no month twice, in strictly ascending order of the month.
C3_MonthlyOnePerMonthAscending ==
    \A o \in Outs :
        LET md == o.monthlyData
        IN /\ {ToStringChars(md[i].month) : i \in 1..Len(md)} = InputMonths
           /\ Len(md) = Cardinality(InputMonths)
           /\ \A i, j \in 1..Len(md) :
                  i < j => CompareChars(ToStringChars(md[i].month),
                                        ToStringChars(md[j].month)) < 0

C3_Witness ==
    /\ BothComputed
    /\ Len(input) = 3
    /\ input[1].date = "2024-02-01"
    /\ input[2].date = "2024-01-10"
    /\ input[3].date = "2024-01-05"
    /\ Len(clientOut.monthlyData) = 2
    /\ Len(serverOut.monthlyData) = 2

\* C4: every entry of monthlyData carries the sum of the income amounts and
\* the sum of the expense amounts of the transactions whose date starts with
\* its month, every transaction's month has an entry, and the entries'
\* incomes and expenses add up to totalIncome and totalExpense.
InMonth(S, prefix) == {i \in S : StartsWith(input[i].date, prefix)}

RECURSIVE SumField(_, _, _)
SumField(md, field, n) ==
    IF n = 0 THEN 0 ELSE md[n][field].n + SumField(md, field, n - 1)

C4_MonthlySums ==
    \A o \in Outs :
        LET md == o.monthlyData
        IN /\ \A i \in 1..Len(input) :
                  \E e \in 1..Len(md) : ToStringChars(md[e].month) = Prefix7(input[i].date)
           /\ \A e \in 1..Len(md) :
                  LET m == ToStringChars(md[e].month)
                  IN /\ DOMAIN md[e] = {"month", "income", "expense"}
                     /\ md[e].income = Num(SumAt(InMonth(IncomeIdx(input), m), input))
                     /\ md[e].expense = Num(SumAt(InMonth(ExpenseIdx(input), m), input))
           /\ Num(SumField(md, "income", Len(md))) = o.totalIncome
           /\ Num(SumField(md, "expense", Len(md))) = o.totalExpense

ScenarioMonthly ==
    << [month |-> Str("2024-01"), income |-> Num(1000), expense |-> Num(200)],
       [month |-> Str("2024-02"), income |-> Num(0), expense |-> Num(50)] >>

C4_Witness ==
    /\ BothComputed
    /\ input = Scenario
    /\ clientOut.monthlyData = ScenarioMonthly
    /\ serverOut.monthlyData = ScenarioMonthly

\* C5: the keys of expensesByCategory are exactly the categories of the
\* expense transactions, and each value is the sum of amount over the
\* expense transactions of that category.
ExpenseCategories == {input[i].category : i \in ExpenseIdx(input)}

C5_CategoryKeysAndSums ==
    \A o \in Outs :
        /\ DOMAIN o.expensesByCategory = ExpenseCategories
        /\ \A c \in DOMAIN o.expensesByCategory :
               o.expensesByCategory[c] =
                   Num(SumAt({i \in ExpenseIdx(input) : input[i].category = c}, input))

\* C6: over the empty transaction set the aggregation answers zero totals,
\* an empty expensesByCategory and an empty monthlyData.
EmptyAnalytics ==
    [totalIncome |-> Num(0), totalExpense |-> Num(0), balance |-> Num(0),
     expensesByCategory |-> <<>>, monthlyData |-> <<>>]

C6_EmptyInput ==
    input = <<>> => \A o \in Outs : o = EmptyAnalytics

C6_Witness == input = <<>> /\ BothComputed

\* The orderings of a transaction sequence.
OrderingsOf(ts) ==
    {[i \in 1..Len(ts) |-> ts[f[i]]] : f \in Permutations(1..Len(ts))}

\* C7: the aggregation answers the same for every ordering of the same
\* transactions, and leaves its input as it was.
C7_OrderIndependent ==
    \A p \in OrderingsOf(input) :
        /\ clientOut # None => calculateAnalytics(p) = clientOut
        /\ serverOut # None => GetAnalytics(ItemsOf(p)) = serverOut

\* C7, second part: no step of the aggregation changes the sequence it reads.
C7_InputUnchanged == [][input' = input]_vars

\* C8: over the same transactions the server's and the client's aggregation
\* answer the same totals, expensesByCategory and monthlyData.
C8_ServerEqualsClient ==
    BothComputed => serverOut = clientOut

C8_Witness ==
    /\ BothComputed
    /\ Len(input) = 3
    /\ IncomeIdx(input) # {}
    /\ ExpenseIdx(input) # {}
    /\ Len(clientOut.monthlyData) = 2

(***************************************************************************)
(* The record store (kv_store): a mapping from key to JSON value with set, *)
(* del and a prefix scan that promises no order.                           *)
(***************************************************************************)
KeyOf(id) == <<"transaction:">> \o id

\* JSON.stringify of a stored record: NaN is written as null.
JsonRecord(value) ==
    [f \in DOMAIN value |->
        IF f = "amount" THEN JsonValue(value[f]) ELSE value[f]]

kvSet(store, key, value) ==
    [x \in DOMAIN store \cup {key} |-> IF x = key THEN JsonRecord(value) ELSE store[x]]

kvDel(store, key) == [x \in DOMAIN store \ {key} |-> store[x]]

\* The results kv.getByPrefix may return: the items under the prefix, in any order.
kvGetByPrefix(store, prefix) ==
    LET keys == {x \in DOMAIN store : Head(x) = prefix}
    IN {[i \in 1..Cardinality(keys) |-> [key |-> f[i], value |-> store[f[i]]]] :
            f \in {g \in [1..Cardinality(keys) -> keys] :
                       \A i, j \in 1..Cardinality(keys) : i # j => g[i] # g[j]}}

(***************************************************************************)
(* The server clock and the values read from it.                           *)
(***************************************************************************)
\* new Date().toISOString() at clock value t: the clock counts the
\* milliseconds of one second of 2024-01-10.
ThreeDigits(n) ==
    <<DigitChar(n \div 100), DigitChar((n \div 10) % 10), DigitChar(n % 10)>>

toISOString(t) ==
    Chars("2024-01-10") \o <<"T", "0", "9", ":", "0", "0", ":", "0", "0", ".">>
        \o ThreeDigits(t) \o <<"Z">>

\* .split('T')[0]: the characters before the first 'T'.
RECURSIVE BeforeT(_)
BeforeT(cs) ==
    IF cs = <<>> \/ Head(cs) = "T" THEN <<>>
    ELSE <<Head(cs)>> \o BeforeT(Tail(cs))

Today(t) == StrOf(BeforeT(toISOString(t)))

\* Math.random().toString(36).substr(2, 9): some suffix.
RandomSuffixes == {"a", "b"}

\* `${Date.now()}_${suffix}`
NewId(t, suffix) == NatChars(t) \o <<"_", suffix>>

(***************************************************************************)
(* parseFloat.                                                             *)
(***************************************************************************)
IsDigit(c) == c \in {"0", "1", "2", "3", "4", "5", "6", "7", "8", "9"}
DigitValue(c) == Rank(c) - 2

\* The longest prefix of decimal digits.
RECURSIVE DigitPrefix(_)
DigitPrefix(cs) ==
    IF cs = <<>> \/ ~IsDigit(Head(cs)) THEN <<>>
    ELSE <<Head(cs)>> \o DigitPrefix(Tail(cs))

RECURSIVE DigitsValue(_, _)
DigitsValue(cs, acc) ==
    IF cs = <<>> THEN acc
    ELSE DigitsValue(Tail(cs), 10 * acc + DigitValue(Head(cs)))

\* parseFloat(v): the number the longest numeric prefix of ToString(v)
\* spells, NaN when there is none.
parseFloat(v) ==
    IF v.k = "num" THEN v
    ELSE IF v.k # "str" THEN NaN
    ELSE LET cs == Chars(v.s)
             neg == cs # <<>> /\ Head(cs) = "-"
             ds == DigitPrefix(IF neg THEN Tail(cs) ELSE cs)
         IN IF ds = <<>> THEN NaN
            ELSE Num((IF neg THEN -1 ELSE 1) * DigitsValue(ds, 0))

(***************************************************************************)
(* The handlers of the server.                                             *)
(***************************************************************************)
\* Request bodies of POST /transactions: each field absent or given.  The
\* first set varies the three required fields, the second the amount's form
\* and the two optional fields.
BodiesRequired ==
    [type : {Undef, Str("income"), Str("expense")},
     amount : {Undef, Num(0), Num(50)},
     category : {Undef, Str("food")},
     description : {Undef},
     date : {Undef}]

BodiesOptional ==
    [type : {Str("expense")},
     amount : {Num(50), Str("200"), Str("abc")},
     category : {Str("food")},
     description : {Undef, Str("lunch")},
     date : {Undef, Str("2024-01-05")}]

Bodies == BodiesRequired \cup BodiesOptional

\* Mutant: the check of amount forgotten.
MissingRequiredNoAmount(body) ==
    Falsy(body.type) \/ Falsy(body.category)

\* !type || !amount || !category
MissingRequired(body) ==
    Falsy(body.type) \/ Falsy(body.amount) \/ Falsy(body.category)

\* The record POST /transactions builds from a validated body at clock t.
ManualTransaction(body, t) ==
    [type |-> body.type.s,
     amount |-> parseFloat(body.amount),
     category |-> body.category.s,
     description |-> JsOr(body.description, Str("")).s,
     date |-> JsOr(body.date, Str(Today(t))).s,
     createdAt |-> toISOString(t),
     source |-> "manual"]

\* { id: ..., ...value }
WithId(id, value) == value @@ [id |-> id]

\* Of a request body, which required fields it carries (kept with the
\* answer so that the answer can be read against its request).
Shape(body) ==
    [absent |-> {f \in {"type", "amount", "category"} : body[f] = Undef}]

Answer(op, req, status, body) ==
    [k |-> "resp", op |-> op, req |-> req, status |-> status, body |-> body]

\* POST /transactions, a required field missing: 400.
PostTransactionInvalid(body) ==
    /\ MissingRequired(body)
    /\ resp' = Answer("post", Shape(body), 400, [error |-> "Missing required fields"])
    /\ UNCHANGED <<kv, now, created>>

\* POST /transactions, the record stored: 200 with the record.
PostTransaction(body, suffix) ==
    /\ ~MissingRequired(body)
    /\ Cardinality(created) < MaxCreates
    /\ LET transactionId == NewId(now, suffix)
           transaction == ManualTransaction(body, now)
           returned == JsonRecord(WithId(transactionId, transaction))
       IN /\ kv' = kvSet(kv, KeyOf(transactionId), transaction)
          /\ resp' = Answer("post", Shape(body), 200,
                            [success |-> TRUE, transaction |-> returned])
          /\ created' = created \cup
                 {[id |-> transactionId, req |-> body, at |-> now,
                   returned |-> returned]}
    /\ UNCHANGED now

\* POST /transactions, kv.set throws: 500.
PostTransactionStoreError(body) ==
    /\ ~MissingRequired(body)
    /\ resp' = Answer("post", Shape(body), 500, [error |-> "Failed to add transaction"])
    /\ UNCHANGED <<kv, now, created>>

\* GET /transactions: the stored records, each with its id.
GetTransactions ==
    /\ \E transactions \in kvGetByPrefix(kv, "transaction:") :
           resp' = Answer("list", None, 200,
               [transactions |->
                   [i \in 1..Len(transactions) |->
                       WithId(Tail(transactions[i].key), transactions[i].value)]])
    /\ UNCHANGED <<kv, now, created>>

\* GET /transactions, kv.getByPrefix throws: 500.
GetTransactionsStoreError ==
    /\ resp' = Answer("list", None, 500, [error |-> "Failed to fetch transactions"])
    /\ UNCHANGED <<kv, now, created>>

\* DELETE /transactions/:id
DeleteIds == {NewId(t, suffix) : t \in 1..MaxClock, suffix \in RandomSuffixes}

\* Mutant: the record is kept.
DeleteTransactionKept(transactionId) ==
    /\ resp' = Answer("delete", Chs(transactionId), 200, [success |-> TRUE])
    /\ created' = {c \in created : c.id # transactionId}
    /\ UNCHANGED <<kv, now>>

\* Mutant: an id that is not in the store is answered 404.
DeleteTransactionStrict(transactionId) ==
    /\ kv' = kvDel(kv, KeyOf(transactionId))
    /\ resp' = IF KeyOf(transactionId) \in DOMAIN kv
                THEN Answer("delete", Chs(transactionId), 200, [success |-> TRUE])
                ELSE Answer("delete", Chs(transactionId), 404,
                            [error |-> "Transaction not found"])
    /\ created' = {c \in created : c.id # transactionId}
    /\ UNCHANGED now

DeleteTransaction(transactionId) ==
    /\ kv' = kvDel(kv, KeyOf(transactionId))
    /\ resp' = Answer("delete", Chs(transactionId), 200, [success |-> TRUE])
    /\ created' = {c \in created : c.id # transactionId}
    /\ UNCHANGED now

\* DELETE /transactions/:id, kv.del throws: 500.
DeleteTransactionStoreError(transactionId) ==
    /\ resp' = Answer("delete", Chs(transactionId), 500,
                      [error |-> "Failed to delete transaction"])
    /\ UNCHANGED <<kv, now, created>>

\* GET /analytics over the stored values.
GetAnalyticsRequest ==
    /\ \E transactions \in kvGetByPrefix(kv, "transaction:") :
           resp' = Answer("analytics", None, 200, GetAnalytics(transactions))
    /\ UNCHANGED <<kv, now, created>>

\* The clock advances.
Tick ==
    /\ now < MaxClock
    /\ now' = now + 1
    /\ UNCHANGED <<kv, resp, created>>

Init ==
    /\ kv = <<>>
    /\ now = 1
    /\ resp = None
    /\ created = {}
    /\ deleted = {}
    /\ ClientNotStarted
    /\ input = <<>>
    /\ serverOut = None
    /\ clientOut = None

Next ==
    \/ \E body \in Bodies : PostTransactionInvalid(body) /\ UNCHANGED <<aggVars, deleted, cliVars>>
    \/ \E body \in Bodies, suffix \in RandomSuffixes :
           PostTransaction(body, suffix) /\ UNCHANGED <<aggVars, deleted, cliVars>>
    \/ \E body \in Bodies : PostTransactionStoreError(body) /\ UNCHANGED <<aggVars, deleted, cliVars>>
    \/ GetTransactions /\ UNCHANGED <<aggVars, deleted, cliVars>>
    \/ GetTransactionsStoreError /\ UNCHANGED <<aggVars, deleted, cliVars>>
    \/ \E id \in DeleteIds : DeleteTransaction(id) /\ UNCHANGED <<aggVars, deleted, cliVars>>
    \/ \E id \in DeleteIds : DeleteTransactionStoreError(id) /\ UNCHANGED <<aggVars, deleted, cliVars>>
    \/ GetAnalyticsRequest /\ UNCHANGED <<aggVars, deleted, cliVars>>
    \/ Tick /\ UNCHANGED <<aggVars, deleted, cliVars>>

Spec == Init /\ [][Next]_vars

(***************************************************************************)
(* Properties of the repository, checked under Spec.                       *)
(***************************************************************************)
IsAnswer(op, status) == resp.k = "resp" /\ resp.op = op /\ resp.status = status

\* C9: a POST /transactions whose type, amount or category is absent is
\* answered 400 with an error body and leaves the record store unchanged.
C9_MissingFieldRejected ==
    [][(resp'.k = "resp" /\ resp'.op = "post" /\ resp'.req.absent # {}) =>
          /\ resp'.status = 400
          /\ DOMAIN resp'.body = {"error"}
          /\ kv' = kv]_vars

C9_Witness ==
    /\ IsAnswer("post", 400)
    /\ resp.req.absent = {"category"}
    /\ DOMAIN resp.body = {"error"}
    /\ DOMAIN kv # {}

\* The amount a listed record must carry for an input amount: the number
\* given, or the number a numeral string spells.
IsNumeral(cs) == cs # <<>> /\ \A i \in 1..Len(cs) : IsDigit(cs[i])

AmountEqualsInput(amount, given) ==
    \/ given.k = "num" /\ amount = given
    \/ /\ given.k = "str"
       /\ IsNumeral(Chars(given.s))
       /\ amount = Num(DigitsValue(Chars(given.s), 0))

\* C10: every successful GET /transactions lists, for every successful
\* create whose id was not deleted since, a record with the id the create
\* returned, the type, amount, category, description and date of the input
\* (the current day for an omitted date), createdAt set and source manual,
\* equal to the record the create returned.
C10_CreateThenList ==
    IsAnswer("list", 200) =>
        \A c \in created :
            \E i \in 1..Len(resp.body.transactions) :
                LET r == resp.body.transactions[i]
                IN /\ r.id = c.id
                   /\ r.type = c.req.type.s
                   /\ AmountEqualsInput(r.amount, c.req.amount)
                   /\ r.category = c.req.category.s
                   /\ r.description =
                          (IF c.req.description = Undef THEN "" ELSE c.req.description.s)
                   /\ r.date = (IF c.req.date = Undef THEN Today(c.at) ELSE c.req.date.s)
                   /\ r.createdAt = toISOString(c.at)
                   /\ r.source = "manual"
                   /\ r = c.returned

(***************************************************************************)
(* POST /process-receipt.                                                  *)
(***************************************************************************)
\* The imageBase64 of a request body and the value of GEMINI_API_KEY.
Images == {Undef, Str("image")}
ApiKeys == {Undef, Str("key")}

\* The objects the classifier's text may spell: all fields given, some
\* given, a total that is no numeral, none of the fields read given.
ReceiptDatas ==
    {[total |-> Num(12), category |-> Str("food"), description |-> Str("lunch"),
      vendor |-> Str("cafe")],
     [total |-> Str("200"), vendor |-> Str("cafe")],
     [total |-> Str("abc"), category |-> Str("food")],
     [items |-> Undef]}

\* What the call of the classifier yields: the fetch rejects, a status
\* that is not 2xx, an answer without text, or a text; json is what
\* JSON.parse makes of the trimmed text (None: it throws).
ClassifierFailures ==
    {[k |-> "network", json |-> None], [k |-> "status", json |-> None],
     [k |-> "notext", json |-> None], [k |-> "text", json |-> None]}

ClassifierOutcomes ==
    ClassifierFailures \cup {[k |-> "text", json |-> j] : j \in ReceiptDatas \cup {Null}}

\* receiptData.f
ReceiptField(receiptData, f) ==
    IF f \in DOMAIN receiptData THEN receiptData[f] ELSE Undef

\* The handler throws after the call: the call failed, or a property of
\* null is read.
Throws(outcome) == outcome \in ClassifierFailures \/ outcome.json = Null

ErrorMessage(outcome) ==
    CASE outcome.k = "network" -> "fetch failed"
      [] outcome.k = "status" -> "Gemini API error"
      [] outcome.k = "notext" -> "No response from Gemini API"
      [] outcome.json = None -> "Invalid response format from Gemini API"
      [] OTHER -> "Cannot read properties of null"

\* Mutant: a total that is no numeral is stored as it parses.
ReceiptAmountNoDefault(receiptData) == parseFloat(ReceiptField(receiptData, "total"))

\* parseFloat(receiptData.total) || 0
ReceiptAmount(receiptData) ==
    JsOr(parseFloat(ReceiptField(receiptData, "total")), Num(0))

\* The record POST /process-receipt builds from receiptData at clock t.
ReceiptTransaction(receiptData, t) ==
    [type |-> "expense",
     amount |-> ReceiptAmount(receiptData),
     category |-> JsOr(ReceiptField(receiptData, "category"), Str("other")).s,
     description |->
         JsOr(JsOr(ReceiptField(receiptData, "description"),
                   ReceiptField(receiptData, "vendor")),
              Str("Receipt expense")).s,
     date |-> Today(t),
     createdAt |-> toISOString(t),
     source |-> "receipt",
     vendor |-> JsOr(ReceiptField(receiptData, "vendor"), Str("")).s]

\* Of a receipt request: whether it carries an image, whether the key is
\* configured, whether the classifier was called and what it yielded.
ReceiptShape(image, key, called, outcome) ==
    [image |-> ~Falsy(image), key |-> ~Falsy(key), called |-> called,
     outcome |-> outcome]

\* No image in the body: 400.
ProcessReceiptNoImage(image, key) ==
    /\ Falsy(image)
    /\ resp' = Answer("receipt", ReceiptShape(image, key, FALSE, None), 400,
                      [error |-> <<"No image provided">>])
    /\ UNCHANGED <<kv, now, created>>

\* Mutant: the key is not looked at before the call.
ProcessReceiptNoKeyIgnored(image, key) ==
    /\ ~Falsy(image)
    /\ Falsy(key)
    /\ resp' = Answer("receipt", ReceiptShape(image, key, TRUE, None), 500,
                      [error |-> <<"Failed to process receipt: ", "Gemini API error">>])
    /\ UNCHANGED <<kv, now, created>>

\* The API key is not configured: 500.
ProcessReceiptNoKey(image, key) ==
    /\ ~Falsy(image)
    /\ Falsy(key)
    /\ resp' = Answer("receipt", ReceiptShape(image, key, FALSE, None), 500,
                      [error |-> <<"Gemini API key not configured">>])
    /\ UNCHANGED <<kv, now, created>>

\* Mutant: a failed call is answered with an empty receipt.
ProcessReceiptFailedOk(image, key, outcome) ==
    /\ ~Falsy(image)
    /\ ~Falsy(key)
    /\ Throws(outcome)
    /\ resp' = Answer("receipt", ReceiptShape(image, key, TRUE, outcome), 200,
                      [success |-> TRUE])
    /\ UNCHANGED <<kv, now, created>>

\* The classifier fails or its text is no JSON object: the catch answers 500.
ProcessReceiptFailed(image, key, outcome) ==
    /\ ~Falsy(image)
    /\ ~Falsy(key)
    /\ Throws(outcome)
    /\ resp' = Answer("receipt", ReceiptShape(image, key, TRUE, outcome), 500,
                      [error |-> <<"Failed to process receipt: ", ErrorMessage(outcome)>>])
    /\ UNCHANGED <<kv, now, created>>

\* The receipt is classified and the record stored: 200 with the record.
ProcessReceipt(image, key, outcome, suffix) ==
    /\ ~Falsy(image)
    /\ ~Falsy(key)
    /\ ~Throws(outcome)
    /\ Cardinality(created) < MaxCreates
    /\ LET transactionId == NewId(now, suffix)
           transaction == ReceiptTransaction(outcome.json, now)
           returned == JsonRecord(WithId(transactionId, transaction))
       IN /\ kv' = kvSet(kv, KeyOf(transactionId), transaction)
          /\ resp' = Answer("receipt", ReceiptShape(image, key, TRUE, outcome), 200,
                            [success |-> TRUE, receiptData |-> outcome.json,
                             transaction |-> returned])
          /\ created' = created \cup
                 {[id |-> transactionId, req |-> outcome.json, at |-> now,
                   returned |-> returned]}
    /\ UNCHANGED now

\* The receipt is classified and kv.set throws: 500.
ProcessReceiptStoreError(image, key, outcome) ==
    /\ ~Falsy(image)
    /\ ~Falsy(key)
    /\ ~Throws(outcome)
    /\ resp' = Answer("receipt", ReceiptShape(image, key, TRUE, outcome), 500,
                      [error |-> <<"Failed to process receipt: ", "kv.set failed">>])
    /\ UNCHANGED <<kv, now, created>>

(***************************************************************************)
(* SpecReceipt: POST /process-receipt over every image, key and outcome    *)
(* of the classifier.                                                      *)
(***************************************************************************)
NextReceipt ==
    \/ \E image \in Images, key \in ApiKeys :
           ProcessReceiptNoImage(image, key) /\ UNCHANGED <<aggVars, deleted, cliVars>>
    \/ \E image \in Images, key \in ApiKeys :
           ProcessReceiptNoKey(image, key) /\ UNCHANGED <<aggVars, deleted, cliVars>>
    \/ \E image \in Images, key \in ApiKeys, outcome \in ClassifierOutcomes :
           ProcessReceiptFailed(image, key, outcome)
               /\ UNCHANGED <<aggVars, deleted, cliVars>>
    \/ \E image \in Images, key \in ApiKeys, outcome \in ClassifierOutcomes,
          suffix \in RandomSuffixes :
           ProcessReceipt(image, key, outcome, suffix)
               /\ UNCHANGED <<aggVars, deleted, cliVars>>
    \/ \E image \in Images, key \in ApiKeys, outcome \in ClassifierOutcomes :
           ProcessReceiptStoreError(image, key, outcome)
               /\ UNCHANGED <<aggVars, deleted, cliVars>>
    \/ Tick /\ UNCHANGED <<aggVars, deleted, cliVars>>

SpecReceipt == Init /\ [][NextReceipt]_vars

(***************************************************************************)
(* SpecStore: the handlers that write or read the record store, over a     *)
(* small set of requests, with the history of the deletes.                 *)
(***************************************************************************)
StoreBodies ==
    {[type |-> Str("expense"), amount |-> Num(50), category |-> Str("food"),
      description |-> Undef, date |-> Undef],
     [type |-> Str("transfer"), amount |-> Num(50), category |-> Str("food"),
      description |-> Undef, date |-> Undef]}

StoreOutcomes ==
    {[k |-> "text", json |-> [total |-> Num(12), category |-> Str("food"),
                              description |-> Str("lunch"), vendor |-> Str("cafe")]]}

\* The ids DELETE is asked for: one of the first millisecond, one of the
\* second.
StoreDeleteIds == {NewId(1, "a"), NewId(MaxClock, "b")}

NextStore ==
    \/ \E body \in StoreBodies, suffix \in RandomSuffixes :
           PostTransaction(body, suffix) /\ UNCHANGED <<aggVars, deleted, cliVars>>
    \/ \E outcome \in StoreOutcomes, suffix \in RandomSuffixes :
           ProcessReceipt(Str("image"), Str("key"), outcome, suffix)
               /\ UNCHANGED <<aggVars, deleted, cliVars>>
    \/ GetTransactions /\ UNCHANGED <<aggVars, deleted, cliVars>>
    \/ \E id \in StoreDeleteIds :
           /\ DeleteTransaction(id)
           /\ deleted' = deleted \cup
                  {[id |-> id, existed |-> KeyOf(id) \in DOMAIN kv]}
           /\ UNCHANGED <<aggVars, cliVars>>
    \/ \E id \in StoreDeleteIds :
           DeleteTransactionStoreError(id) /\ UNCHANGED <<aggVars, deleted, cliVars>>
    \/ GetAnalyticsRequest /\ UNCHANGED <<aggVars, deleted, cliVars>>
    \/ Tick /\ UNCHANGED <<aggVars, deleted, cliVars>>

SpecStore == Init /\ [][NextStore]_vars

(***************************************************************************)
(* Properties of the repository, checked under SpecStore.                  *)
(***************************************************************************)
\* A step in which a create was answered 200.
CreatedStep ==
    /\ resp' # resp
    /\ resp'.k = "resp"
    /\ resp'.op \in {"post", "receipt"}
    /\ resp'.status = 200

\* C11: every successful creation is stored under an id that no stored
\* record has at that moment: it adds one record to the store and leaves
\* every record already stored as it was.
C11_CreateUnderFreshId ==
    [][CreatedStep =>
          /\ KeyOf(resp'.body.transaction.id) \notin DOMAIN kv
          /\ Cardinality(DOMAIN kv') = Cardinality(DOMAIN kv) + 1
          /\ \A x \in DOMAIN kv : kv'[x] = kv[x]]_vars

\* The ids of the records a GET /transactions answer lists.
ListedIds == {resp.body.transactions[i].id : i \in 1..Len(resp.body.transactions)}

Gone == {d.id : d \in deleted} \ {c.id : c \in created}

DeletedStep ==
    /\ resp' # resp
    /\ resp'.k = "resp"
    /\ resp'.op = "delete"
    /\ resp'.status # 500

\* C13: a record is never changed in place: while its id stays in the
\* store its value stays the same, a create removes no record and a delete
\* removes no record but the one of its id.
C13_NoChangeInPlace ==
    [][/\ \A x \in DOMAIN kv \cap DOMAIN kv' : kv'[x] = kv[x]
       /\ CreatedStep => DOMAIN kv \subseteq DOMAIN kv'
       /\ DeletedStep => DOMAIN kv \ {KeyOf(resp'.req.cs)} \subseteq DOMAIN kv']_vars

\* C14: a DELETE the store does not fail is answered 200 {success: true},
\* whether or not the id is in the store; the id is then not in the store,
\* the store is unchanged when the id was not in it, and deleting the id
\* once more leaves the store as it is.
C14_DeleteIdempotent ==
    [][DeletedStep =>
          LET key == KeyOf(resp'.req.cs)
          IN /\ resp'.status = 200
             /\ resp'.body = [success |-> TRUE]
             /\ key \notin DOMAIN kv'
             /\ \A x \in DOMAIN kv \ {key} : x \in DOMAIN kv' /\ kv'[x] = kv[x]
             /\ key \notin DOMAIN kv => kv' = kv
             /\ kvDel(kv', key) = kv']_vars

\* A DELETE of an id no create can have drawn yet (the clock has not
\* reached it) was answered 200 and the store holds another record.
C14_Witness ==
    /\ IsAnswer("delete", 200)
    /\ resp.req = Chs(NewId(MaxClock, "b"))
    /\ now = 1
    /\ DOMAIN kv = {KeyOf(NewId(1, "a"))}

(***************************************************************************)
(* Properties of POST /process-receipt, checked under SpecReceipt.         *)
(***************************************************************************)
\* A step in which a POST /process-receipt was answered.
ReceiptStep ==
    /\ resp' # resp
    /\ resp'.k = "resp"
    /\ resp'.op = "receipt"

\* C15: when the call of the classifier fails (network failure or a
\* status that is not 2xx), yields no text, or yields a text JSON.parse
\* rejects, the answer is 500 with an {error} body and the record store is
\* unchanged.
C15_ClassifierFailureIs500 ==
    [][(ReceiptStep /\ resp'.req.called /\ resp'.req.outcome \in ClassifierFailures) =>
          /\ resp'.status = 500
          /\ DOMAIN resp'.body = {"error"}
          /\ kv' = kv]_vars

\* A text that is no JSON was answered 500 while a record is stored.
C15_Witness ==
    /\ IsAnswer("receipt", 500)
    /\ resp.req.called
    /\ resp.req.outcome = [k |-> "text", json |-> None]
    /\ DOMAIN kv # {}

\* The values the record of a classified receipt must carry.
ExpectedReceiptAmount(amount, receiptData) ==
    IF "total" \in DOMAIN receiptData
       /\ (receiptData.total.k = "num" \/ IsNumeral(Chars(receiptData.total.s)))
    THEN AmountEqualsInput(amount, receiptData.total)
    ELSE amount = Num(0)

ExpectedText(receiptData, fields, default) ==
    LET given == {i \in 1..Len(fields) : fields[i] \in DOMAIN receiptData}
    IN IF given = {} THEN default
       ELSE receiptData[fields[CHOOSE i \in given : \A j \in given : i <= j]].s

\* C16: a POST /process-receipt answered 200 has stored exactly one
\* record, under the id it returns, and changed no other; the record has
\* type expense, amount the number total spells or 0, category the parsed
\* one or "other", description the parsed one, else the vendor, else
\* "Receipt expense", date the current day, source receipt and vendor the
\* parsed one or "".
C16_ReceiptRecord ==
    [][(ReceiptStep /\ resp'.status = 200) =>
          LET receiptData == resp'.req.outcome.json
              key == KeyOf(resp'.body.transaction.id)
          IN /\ DOMAIN kv' = DOMAIN kv \cup {key}
             /\ \A x \in DOMAIN kv \ {key} : kv'[x] = kv[x]
             /\ kv'[key].type = "expense"
             /\ ExpectedReceiptAmount(kv'[key].amount, receiptData)
             /\ kv'[key].category = ExpectedText(receiptData, <<"category">>, "other")
             /\ kv'[key].description =
                    ExpectedText(receiptData, <<"description", "vendor">>,
                                 "Receipt expense")
             /\ kv'[key].date = Today(now)
             /\ kv'[key].source = "receipt"
             /\ kv'[key].vendor = ExpectedText(receiptData, <<"vendor">>, "")]_vars

\* Every classified receipt can be answered 200.
C16_Witness ==
    /\ IsAnswer("receipt", 200)
    /\ resp.req.outcome.json = [total |-> Str("abc"), category |-> Str("food")]
    /\ Cardinality(DOMAIN kv) = 2
    /\ \E x \in DOMAIN kv :
           /\ kv[x].amount = Num(0)
           /\ kv[x].description = "Receipt expense"
           /\ kv[x].vendor = ""

\* C17: a POST /process-receipt without imageBase64, or while the API key
\* is not configured, is answered 400; the classifier is not called and the
\* record store is unchanged.
C17_NoImageOrNoKeyIs400 ==
    [][(ReceiptStep /\ (~resp'.req.image \/ ~resp'.req.key)) =>
          /\ resp'.status = 400
          /\ ~resp'.req.called
          /\ kv' = kv]_vars

\* C17 (amended): a POST /process-receipt without imageBase64 is answered
\* 400; one with an image while the API key is not configured is answered
\* 500; in both cases the body is {error}, the classifier is not called and
\* the record store is unchanged.
C17_NoImage400NoKey500 ==
    [][(ReceiptStep /\ (~resp'.req.image \/ ~resp'.req.key)) =>
          /\ resp'.status = (IF resp'.req.image THEN 500 ELSE 400)
          /\ DOMAIN resp'.body = {"error"}
          /\ ~resp'.req.called
          /\ kv' = kv]_vars

\* A request with an image was answered 500 for the missing key, a record
\* being stored.
C17_Witness ==
    /\ IsAnswer("receipt", 500)
    /\ resp.req.image
    /\ ~resp.req.key
    /\ ~resp.req.called
    /\ DOMAIN kv # {}

(***************************************************************************)
(* The fields of the stored records.                                       *)
(***************************************************************************)
\* C18: every stored record has an amount that is a number, and at least 0
\* (checked under Spec, whose bodies carry amounts of every form).
C18_AmountNonNegative ==
    \A x \in DOMAIN kv : kv[x].amount.k = "num" /\ kv[x].amount.n >= 0

\* Every entry of the monthlyData of a GET /analytics answer has the fields
\* month, income and expense only.
MonthlyFieldsOnly ==
    IsAnswer("analytics", 200) =>
        \A i \in 1..Len(resp.body.monthlyData) :
            DOMAIN resp.body.monthlyData[i] = {"month", "income", "expense"}

\* C19: every stored record has type income or expense, and every entry of
\* the monthlyData of a GET /analytics answer has the fields month, income
\* and expense only (checked under SpecStore).
C19_TypeIncomeOrExpense ==
    /\ \A x \in DOMAIN kv : kv[x].type \in {"income", "expense"}
    /\ MonthlyFieldsOnly

\* C25: a POST /transactions that carries type, amount and category is
\* never answered 400, whatever the amount, 0 included: it is stored and
\* answered 200 (or 500 when the store fails).
C25_PresentFieldsAccepted ==
    (resp.k = "resp" /\ resp.op = "post" /\ resp.req.absent = {}) =>
        /\ resp.status \in {200, 500}
        /\ resp.status = 200 => DOMAIN kv # {}

(***************************************************************************)
(* The client: App, TransactionForm and ReceiptScanner.  A handler runs    *)
(* from the values of the render it was created in; what the server        *)
(* answers to its requests is an input.                                    *)
(***************************************************************************)
\* The sample transactions of loadSampleData, amounts in hundredths; the
\* clock is in January 2024, so currentMonth is 2024-01, lastMonth 2023-12.
SampleId(n) == <<"sample_", DigitChar(n)>>

Sample(n, type, amount, category, description, date, createdAt) ==
    [id |-> SampleId(n), type |-> type, amount |-> Num(amount),
     category |-> category, description |-> description, date |-> date,
     createdAt |-> createdAt, source |-> "manual"]

sampleTransactions ==
    <<Sample(1, "income", 350000, "salary", "Monthly Salary",
             "2024-01-01", "2024-01-01T09:00:00Z"),
      Sample(2, "income", 320000, "salary", "Previous Month Salary",
             "2023-12-01", "2023-12-01T09:00:00Z"),
      Sample(3, "expense", 8550, "food", "Grocery Shopping",
             "2024-01-15", "2024-01-15T14:30:00Z"),
      Sample(4, "expense", 4500, "transport", "Gas Station",
             "2024-01-20", "2024-01-20T08:15:00Z"),
      Sample(5, "expense", 12000, "utilities", "Electric Bill",
             "2024-01-10", "2024-01-10T16:00:00Z"),
      Sample(6, "expense", 7530, "food", "Restaurant Dinner",
             "2024-01-22", "2024-01-22T19:30:00Z"),
      Sample(7, "expense", 2599, "entertainment", "Movie Tickets",
             "2024-01-18", "2024-01-18T20:00:00Z"),
      Sample(8, "expense", 9500, "shopping", "Clothing",
             "2023-12-25", "2023-12-25T15:20:00Z"),
      Sample(9, "expense", 5540, "healthcare", "Pharmacy",
             "2023-12-12", "2023-12-12T11:45:00Z")>>

\* The state of App and the item of the browser's storage, as one value.
ClientState ==
    [transactions |-> appTransactions, useLocalStorage |-> useLocalStorage,
     localStorage |-> localStorage, connectionError |-> connectionError,
     showingLocalMode |-> showingLocalMode, analytics |-> analytics,
     loading |-> loading]

\* The next render shows st.
Render(st) ==
    /\ appTransactions' = st.transactions
    /\ useLocalStorage' = st.useLocalStorage
    /\ localStorage' = st.localStorage
    /\ connectionError' = st.connectionError
    /\ showingLocalMode' = st.showingLocalMode
    /\ analytics' = st.analytics
    /\ loading' = st.loading

\* localStorage.setItem('finbud_transactions', JSON.stringify(list))
saveTransactionsToLocal(st, list) ==
    [st EXCEPT !.localStorage =
        [k |-> "item", list |-> [i \in 1..Len(list) |-> JsonRecord(list[i])]]]

\* JSON.parse of the item, [] when there is none.
loadTransactionsFromLocal(st) ==
    IF st.localStorage = None THEN <<>> ELSE st.localStorage.list

loadSampleData(st) ==
    [saveTransactionsToLocal(st, sampleTransactions) EXCEPT
        !.transactions = sampleTransactions,
        !.analytics = calculateAnalytics(sampleTransactions),
        !.showingLocalMode = TRUE]

\* What the two requests of loadData yield together: both answered 2xx
\* with a list, one answered otherwise, one not answered (network error or
\* the 10 s abort).
Failures == {"status", "network"}

ServerRecord ==
    [id |-> NewId(1, "b"), type |-> "expense", amount |-> Num(50),
     category |-> "food", description |-> "", date |-> "2024-01-10",
     createdAt |-> toISOString(1), source |-> "manual"]

ServerLists == {<<>>, <<ServerRecord>>}

\* The body of GET /analytics when the server holds list.
ServerAnalytics(list) == GetAnalytics(ItemsOf(list))

Fetched ==
    {[k |-> "ok", list |-> l] : l \in ServerLists}
        \cup {[k |-> f, list |-> <<>>] : f \in Failures}

\* The local branch of loadData: what the storage holds, the samples when
\* it holds nothing.
loadLocal(st) ==
    LET localTransactions == loadTransactionsFromLocal(st)
    IN IF Len(localTransactions) > 0
       THEN [st EXCEPT !.transactions = localTransactions,
                       !.analytics = calculateAnalytics(localTransactions),
                       !.showingLocalMode = FALSE]
       ELSE loadSampleData(st)

\* The catch of the server branch of loadData.
loadFallback(st) ==
    LET failed == [st EXCEPT !.useLocalStorage = TRUE,
                             !.connectionError =
                       "Unable to connect to server. Using local storage mode."]
        localTransactions == loadTransactionsFromLocal(failed)
    IN IF Len(localTransactions) > 0
       THEN [failed EXCEPT !.transactions = localTransactions,
                           !.analytics = calculateAnalytics(localTransactions)]
       ELSE loadSampleData(failed)

\* loadData() called from a render whose useLocalStorage is local, run to
\* its end.
loadData(st, local, fetched) ==
    LET loaded ==
            IF local THEN loadLocal(st)
            ELSE IF fetched.k = "ok"
            THEN [st EXCEPT !.transactions = fetched.list,
                            !.analytics = ServerAnalytics(fetched.list),
                            !.connectionError = "",
                            !.showingLocalMode = FALSE]
            ELSE loadFallback(st)
    IN [loaded EXCEPT !.loading = FALSE]

\* The transactions of a list that are no samples (their number is bounded
\* by MaxCreates).
UserTransactions(list) ==
    {i \in 1..Len(list) : list[i].id \notin {SampleId(n) : n \in 1..9}}

\* The values of the form: the amount is the text of a number input.
Forms ==
    {[type |-> "expense", amount |-> "200", category |-> "food",
      description |-> "lunch", date |-> "2024-01-05"]}

\* transactionData of handleSubmit.
transactionData(formData) ==
    [type |-> formData.type, amount |-> parseFloat(Str(formData.amount)),
     category |-> formData.category, description |-> formData.description,
     date |-> formData.date, source |-> "manual"]

\* addTransactionLocal from a render whose transactions is st.transactions.
addTransactionLocal(st, transaction, t, suffix) ==
    LET newTransaction ==
            [id |-> NewId(t, suffix), createdAt |-> toISOString(t)] @@ transaction
        updatedTransactions == Append(st.transactions, newTransaction)
    IN [saveTransactionsToLocal(st, updatedTransactions) EXCEPT
           !.transactions = updatedTransactions,
           !.analytics = calculateAnalytics(updatedTransactions),
           !.showingLocalMode = FALSE]

RECURSIVE WithoutId(_, _)
WithoutId(list, transactionId) ==
    IF list = <<>> THEN <<>>
    ELSE IF Head(list).id = transactionId THEN WithoutId(Tail(list), transactionId)
    ELSE <<Head(list)>> \o WithoutId(Tail(list), transactionId)

\* Mutant: the analytics left as they were.
deleteTransactionLocalStale(st, transactionId) ==
    LET updatedTransactions == WithoutId(st.transactions, transactionId)
    IN [saveTransactionsToLocal(st, updatedTransactions) EXCEPT
           !.transactions = updatedTransactions]

deleteTransactionLocal(st, transactionId) ==
    LET updatedTransactions == WithoutId(st.transactions, transactionId)
    IN [saveTransactionsToLocal(st, updatedTransactions) EXCEPT
           !.transactions = updatedTransactions,
           !.analytics = calculateAnalytics(updatedTransactions)]

\* The last operation of the user: the request's outcome ("none": no
\* request was made), the outcome of the load that followed, and whether
\* the operation was carried out on the local storage.
Operation(op, outcome, reload, local) ==
    [k |-> "op", op |-> op, outcome |-> outcome, reload |-> reload, local |-> local]

\* The page is opened: App starts from its initial state and loads.
Mount ==
    /\ Render(loadData([ClientState EXCEPT !.transactions = <<>>,
                                           !.useLocalStorage = TRUE,
                                           !.connectionError = "",
                                           !.showingLocalMode = TRUE,
                                           !.analytics = initialAnalytics,
                                           !.loading = TRUE],
                       TRUE, [k |-> "ok", list |-> <<>>]))
    /\ ui' = Operation("mount", "none", "none", TRUE)
    /\ UNCHANGED now

\* "Try Server Mode" of the sample-data alert: loadData runs from the
\* render in which the button was shown.
TryServerModeFromSample ==
    /\ ui # None
    /\ showingLocalMode
    /\ Render(loadData([ClientState EXCEPT !.useLocalStorage = FALSE,
                                           !.showingLocalMode = FALSE],
                       useLocalStorage, [k |-> "ok", list |-> <<>>]))
    /\ ui' = Operation("tryServer", "none", "none", useLocalStorage)
    /\ UNCHANGED now

\* "Try Server Mode" of the connection-error alert.
TryServerModeFromError ==
    /\ ui # None
    /\ connectionError # ""
    /\ Render(loadData([ClientState EXCEPT !.useLocalStorage = FALSE,
                                           !.connectionError = ""],
                       useLocalStorage, [k |-> "ok", list |-> <<>>]))
    /\ ui' = Operation("tryServer", "none", "none", useLocalStorage)
    /\ UNCHANGED now

\* handleSubmit of the form in local mode.
handleSubmitLocal(formData, suffix) ==
    /\ ui # None
    /\ Cardinality(UserTransactions(appTransactions)) < MaxCreates
    /\ useLocalStorage
    /\ Render(loadData(addTransactionLocal(ClientState, transactionData(formData),
                                           now, suffix),
                       TRUE, [k |-> "ok", list |-> <<>>]))
    /\ ui' = Operation("submit", "none", "none", TRUE)
    /\ UNCHANGED now

\* handleSubmit of the form in server mode; outcome is what the POST
\* yields, fetched what the load after it yields.
handleSubmit(formData, outcome, suffix, fetched) ==
    /\ ui # None
    /\ Cardinality(UserTransactions(appTransactions)) < MaxCreates
    /\ ~useLocalStorage
    /\ IF outcome = "ok"
       THEN /\ Render(loadData(ClientState, FALSE, fetched))
            /\ ui' = Operation("submit", outcome, fetched.k, FALSE)
       ELSE IF outcome = "status"
       THEN /\ Render(ClientState)
            /\ ui' = Operation("submit", outcome, "none", FALSE)
       ELSE /\ Render(loadData(addTransactionLocal(ClientState,
                                   transactionData(formData), now, suffix),
                               FALSE, fetched))
            /\ ui' = Operation("submit", outcome, fetched.k, TRUE)
    /\ UNCHANGED now

\* handleDeleteTransaction for the i-th transaction of the list (the
\* specification asks for the last one), in local mode.
handleDeleteTransactionLocal(i) ==
    /\ ui # None
    /\ i \in 1..Len(appTransactions)
    /\ useLocalStorage
    /\ Render(deleteTransactionLocal(ClientState, appTransactions[i].id))
    /\ ui' = Operation("delete", "none", "none", TRUE)
    /\ UNCHANGED now

\* handleDeleteTransaction for the i-th transaction shown, in server mode.
handleDeleteTransaction(i, outcome, fetched) ==
    /\ ui # None
    /\ i \in 1..Len(appTransactions)
    /\ ~useLocalStorage
    /\ IF outcome = "ok"
       THEN /\ Render(loadData(ClientState, FALSE, fetched))
            /\ ui' = Operation("delete", outcome, fetched.k, FALSE)
       ELSE /\ Render(deleteTransactionLocal(ClientState, appTransactions[i].id))
            /\ ui' = Operation("delete", outcome, "none", TRUE)
    /\ UNCHANGED now

\* handleScanReceipt with an image chosen; the scanner is shown in server
\* mode only.
handleScanReceipt(outcome, fetched) ==
    /\ ui # None
    /\ ~useLocalStorage
    /\ IF outcome = "ok"
       THEN /\ Render(loadData(ClientState, FALSE, fetched))
            /\ ui' = Operation("scan", outcome, fetched.k, FALSE)
       ELSE /\ Render(ClientState)
            /\ ui' = Operation("scan", outcome, "none", FALSE)
    /\ UNCHANGED now

Outcomes == {"ok"} \cup Failures

\* What the browser's storage holds when the page is first opened.
StoredBefore ==
    {None,
     [k |-> "item",
      list |-> <<[id |-> NewId(1, "a"), type |-> "expense", amount |-> Num(200),
                  category |-> "food", description |-> "lunch",
                  date |-> "2024-01-05", createdAt |-> toISOString(1),
                  source |-> "manual"]>>]}

InitClient ==
    /\ appTransactions = <<>>
    /\ useLocalStorage = TRUE
    /\ localStorage \in StoredBefore
    /\ connectionError = ""
    /\ showingLocalMode = TRUE
    /\ analytics = initialAnalytics
    /\ loading = TRUE
    /\ ui = None
    /\ removed = {}
    /\ pending = {}
    /\ scanner = None
    /\ history = None
    /\ now = 1
    /\ kv = <<>>
    /\ resp = None
    /\ created = {}
    /\ deleted = {}
    /\ input = <<>>
    /\ serverOut = None
    /\ clientOut = None

\* What the handlers of App leave alone.
outsideApp == <<kv, resp, created, deleted, aggVars, pending, scanner, history>>
outsideClient == <<outsideApp, removed>>
outsideRequests == <<kv, resp, created, deleted, aggVars, removed, scanner, history>>

NextClient ==
    \/ Mount /\ UNCHANGED outsideClient
    \/ TryServerModeFromSample /\ UNCHANGED outsideClient
    \/ TryServerModeFromError /\ UNCHANGED outsideClient
    \/ \E formData \in Forms, suffix \in RandomSuffixes :
           handleSubmitLocal(formData, suffix)
               /\ UNCHANGED outsideClient
    \/ \E formData \in Forms, outcome \in Outcomes, suffix \in RandomSuffixes,
          fetched \in Fetched :
           handleSubmit(formData, outcome, suffix, fetched)
               /\ UNCHANGED outsideClient
    \/ \E i \in {Len(appTransactions)} :
           handleDeleteTransactionLocal(i)
               /\ UNCHANGED outsideClient
    \/ \E i \in {Len(appTransactions)}, outcome \in Outcomes, fetched \in Fetched :
           handleDeleteTransaction(i, outcome, fetched)
               /\ UNCHANGED outsideClient
    \/ \E outcome \in Outcomes, fetched \in Fetched :
           handleScanReceipt(outcome, fetched)
               /\ UNCHANGED outsideClient
    \/ Tick /\ UNCHANGED <<deleted, cliVars, aggVars>>

SpecClient == InitClient /\ [][NextClient]_vars

(***************************************************************************)
(* SpecLocal: the client in local mode, with the history of the ids it     *)
(* deleted.                                                                *)
(***************************************************************************)
NextLocal ==
    \/ Mount /\ UNCHANGED outsideClient
    \/ \E formData \in Forms, suffix \in RandomSuffixes :
           /\ handleSubmitLocal(formData, suffix)
           /\ removed' = removed \ {NewId(now, suffix)}
           /\ UNCHANGED outsideApp
    \/ \E i \in {Len(appTransactions)} :
           /\ handleDeleteTransactionLocal(i)
           /\ removed' = removed \cup {appTransactions[i].id}
           /\ UNCHANGED outsideApp
    \/ Tick /\ UNCHANGED <<deleted, cliVars, aggVars>>

SpecLocal == InitClient /\ [][NextLocal]_vars

(***************************************************************************)
(* SpecAsync: the client in server mode with its requests in flight.  A    *)
(* handler runs up to its await; the answer, when there is one, runs the   *)
(* rest.  The user waits for the requests in flight before starting the    *)
(* next operation.                                                         *)
(***************************************************************************)
\* A request: its kind, for a DELETE the id, and whether its
\* AbortController has aborted it.
Request(kind, id) == [kind |-> kind, id |-> id, aborted |-> FALSE]

IsLoadRequest(r) == r.kind \in {"list", "analytics"}

\* Promise.all([fetchTransactions(), fetchAnalytics()])
LoadRequests == {Request("list", <<>>), Request("analytics", <<>>)}

\* The requests the user can start: the POST of the form, the scan of a
\* receipt, the DELETE of the last transaction shown.
UserRequests ==
    {Request("create", <<>>), Request("scan", <<>>)}
        \cup {Request("delete", appTransactions[i].id) : i \in {Len(appTransactions)} \ {0}}

\* handleSubmit, handleScanReceipt, handleDeleteTransaction in server mode,
\* up to `await fetch(...)`: none of them sets a timer.
sendRequest(r) ==
    /\ ui # None
    /\ ~useLocalStorage
    /\ ~loading
    /\ pending = {}
    /\ r.kind = "create" => Cardinality(UserTransactions(appTransactions)) < MaxCreates
    /\ pending' = {r}
    /\ UNCHANGED <<appVars, now>>

\* loadData() of a render in server mode, up to its await.
loadDataStarted(st) == [st EXCEPT !.loading = TRUE]

\* The rest of the handler once its request is answered or has failed.
requestAnswered(r, outcome, formData, suffix) ==
    /\ r \in pending
    /\ ~IsLoadRequest(r)
    /\ IF outcome = "ok"
       THEN /\ Render(loadDataStarted(ClientState))
            /\ pending' = (pending \ {r}) \cup LoadRequests
       ELSE IF r.kind = "delete"
       THEN /\ Render(deleteTransactionLocal(ClientState, r.id))
            /\ pending' = pending \ {r}
       ELSE IF r.kind = "create" /\ outcome = "network"
       THEN /\ Render(loadDataStarted(addTransactionLocal(ClientState,
                                          transactionData(formData), now, suffix)))
            /\ pending' = (pending \ {r}) \cup LoadRequests
       ELSE /\ Render(ClientState)
            /\ pending' = pending \ {r}
    /\ UNCHANGED <<ui, now>>

\* fetchTransactions or fetchAnalytics answered 2xx: it sets its state;
\* when it is the second of a loadData still waiting, loadData ends.
fetchAnswered(r, list) ==
    /\ r \in pending
    /\ IsLoadRequest(r)
    /\ ~r.aborted
    /\ LET shown == IF r.kind = "list"
                    THEN [ClientState EXCEPT !.transactions = list]
                    ELSE [ClientState EXCEPT !.analytics = ServerAnalytics(list)]
       IN Render(IF loading /\ pending = {r}
                 THEN [shown EXCEPT !.connectionError = "",
                                    !.showingLocalMode = FALSE,
                                    !.loading = FALSE]
                 ELSE shown)
    /\ pending' = pending \ {r}
    /\ UNCHANGED <<ui, now>>

\* setTimeout(() => controller.abort(), 10000) of fetchTransactions and
\* fetchAnalytics: the timer fires before the answer.
timerFired(r) ==
    /\ r \in pending
    /\ IsLoadRequest(r)
    /\ ~r.aborted
    /\ pending' = (pending \ {r}) \cup {[r EXCEPT !.aborted = TRUE]}
    /\ UNCHANGED <<appVars, now>>

\* fetchTransactions or fetchAnalytics throws: answered otherwise, a
\* network error, or aborted.  Promise.all rejects with the first one and
\* loadData falls back.
fetchFailed(r) ==
    /\ r \in pending
    /\ IsLoadRequest(r)
    /\ Render(IF loading
              THEN [loadFallback(ClientState) EXCEPT !.loading = FALSE]
              ELSE ClientState)
    /\ pending' = pending \ {r}
    /\ UNCHANGED <<ui, now>>

NextAsync ==
    \/ Mount /\ pending' = {} /\ UNCHANGED outsideRequests
    \/ TryServerModeFromSample /\ UNCHANGED outsideClient
    \/ TryServerModeFromError /\ UNCHANGED outsideClient
    \/ \E r \in UserRequests : sendRequest(r) /\ UNCHANGED outsideRequests
    \/ \E r \in pending, outcome \in Outcomes, formData \in Forms,
          suffix \in RandomSuffixes :
           requestAnswered(r, outcome, formData, suffix) /\ UNCHANGED outsideRequests
    \/ \E r \in pending, list \in ServerLists :
           fetchAnswered(r, list) /\ UNCHANGED outsideRequests
    \/ \E r \in pending : timerFired(r) /\ UNCHANGED outsideRequests
    \/ \E r \in pending : fetchFailed(r) /\ UNCHANGED outsideRequests

\* The timers that were set fire; nothing makes the server answer.
SpecAsync ==
    /\ InitClient
    /\ [][NextAsync]_vars
    /\ WF_vars(\E r \in pending : timerFired(r) /\ UNCHANGED outsideRequests)

(***************************************************************************)
(* SpecScanner: ReceiptScanner, its file input and its FileReaders.        *)
(***************************************************************************)
\* The files the user can choose or drop: two images and a document.
Files ==
    {[name |-> "a.png", type |-> "image/png"],
     [name |-> "b.png", type |-> "image/png"],
     [name |-> "c.pdf", type |-> "application/pdf"]}

NoFile == [name |-> "", type |-> ""]

\* ReceiptScanner when it is shown: nothing previewed, the input empty, no
\* FileReader at work, no scan made.
scannerShown ==
    [k |-> "scanner", previewImage |-> NoFile, input |-> NoFile, error |-> "",
     readers |-> {}, scan |-> None]

\* handleFileSelect(file): a file whose type starts with 'image/' is
\* handed to a FileReader.
handleFileSelect(sc, file) ==
    IF file.type \notin {"image/png"}
    THEN [sc EXCEPT !.error = "Please select a valid image file"]
    ELSE [sc EXCEPT !.readers = @ \cup {file}]

openScanner ==
    /\ scanner = None
    /\ scanner' = scannerShown

\* The user picks a file in the file input: the input holds it.
handleFileChange(file) ==
    /\ scanner # None
    /\ scanner' = handleFileSelect([scanner EXCEPT !.input = file], file)

\* The user drops a file on the drop zone: the input is not touched.
handleDrop(file) ==
    /\ scanner # None
    /\ scanner' = handleFileSelect(scanner, file)

\* reader.onload of a FileReader of handleFileSelect.
readerLoaded(file) ==
    /\ scanner # None
    /\ file \in scanner.readers
    /\ scanner' = [scanner EXCEPT !.previewImage = file, !.error = "",
                                  !.readers = @ \ {file}]

\* handleScanReceipt, the button enabled (a preview is shown): the file of
\* the input is uploaded; outcome is what the POST yields.  scan keeps
\* what was shown, what was uploaded and what was thrown.
scanReceipt(outcome) ==
    /\ scanner # None
    /\ scanner.previewImage # NoFile
    /\ LET file == scanner.input
       IN scanner' =
            IF file = NoFile
            THEN [scanner EXCEPT
                     !.error = "Failed to process receipt. Please try again.",
                     !.scan = [shown |-> scanner.previewImage, uploaded |-> NoFile,
                               thrown |-> "No file selected"]]
            ELSE [scanner EXCEPT
                     !.error = IF outcome = "ok" THEN ""
                               ELSE IF outcome = "status"
                               THEN "Failed to process receipt"
                               ELSE "Failed to process receipt. Please try again.",
                     !.scan = [shown |-> scanner.previewImage, uploaded |-> file,
                               thrown |-> ""]]

outsideScanner == <<srvVars, deleted, aggVars, appVars, removed, pending, history>>

NextScanner ==
    \/ openScanner /\ UNCHANGED outsideScanner
    \/ \E file \in Files : handleFileChange(file) /\ UNCHANGED outsideScanner
    \/ \E file \in Files : handleDrop(file) /\ UNCHANGED outsideScanner
    \/ \E file \in Files : readerLoaded(file) /\ UNCHANGED outsideScanner
    \/ \E outcome \in Outcomes : scanReceipt(outcome) /\ UNCHANGED outsideScanner

SpecScanner == Init /\ [][NextScanner]_vars

(***************************************************************************)
(* SpecHistory: TransactionHistory as a function of its transactions prop  *)
(* and its three filters.  Texts are sequences of characters.              *)
(***************************************************************************)
\* String.prototype.toLowerCase, on the capitals of the model's texts.
toLowerCase(cs) ==
    [i \in 1..Len(cs) |->
        CASE cs[i] = "C" -> "c" [] cs[i] = "L" -> "l" [] cs[i] = "U" -> "u"
          [] OTHER -> cs[i]]

\* String.prototype.includes
includes(cs, part) ==
    \E from \in 1..(Len(cs) - Len(part) + 1) :
        SubSeq(cs, from, from + Len(part) - 1) = part

\* new Date(createdAt).getTime(), counted from the start of the second
\* the clock runs in: the three digits after the '.'.
getTime(createdAt) == DigitsValue(SubSeq(createdAt, 21, 23), 0)

\* transactions.filter(transaction => matchesSearch && matchesType && matchesCategory)
filteredTransactions(transactions, searchTerm, filterType, filterCategory) ==
    LET term == toLowerCase(searchTerm)
        matches(transaction) ==
            /\ \/ includes(toLowerCase(transaction.description), term)
               \/ includes(toLowerCase(transaction.category), term)
               \/ includes(IF transaction.vendor = Undef THEN <<>>
                           ELSE toLowerCase(transaction.vendor.cs), term)
            /\ filterType = "all" \/ transaction.type = filterType
            /\ filterCategory = <<"a", "l", "l">> \/ transaction.category = filterCategory
    IN SelectSeq(transactions, matches)

\* Mutant: oldest first.
compareOldestFirst(a, b) == getTime(a.createdAt) - getTime(b.createdAt)

\* (a, b) => new Date(b.createdAt).getTime() - new Date(a.createdAt).getTime()
compareNewestFirst(a, b) == getTime(b.createdAt) - getTime(a.createdAt)

\* [...list].sort(compare): stable.
RECURSIVE InsertByCreatedAt(_, _)
InsertByCreatedAt(sorted, transaction) ==
    IF sorted = <<>> THEN <<transaction>>
    ELSE IF compareNewestFirst(Head(sorted), transaction) <= 0
    THEN <<Head(sorted)>> \o InsertByCreatedAt(Tail(sorted), transaction)
    ELSE <<transaction>> \o sorted

RECURSIVE sortedTransactions(_)
sortedTransactions(list) ==
    IF list = <<>> THEN <<>>
    ELSE InsertByCreatedAt(sortedTransactions(SubSeq(list, 1, Len(list) - 1)),
                           list[Len(list)])

\* A render of TransactionHistory: its prop, its state and the rows shown.
TransactionHistory(transactions, searchTerm, filterType, filterCategory) ==
    [k |-> "history", transactions |-> transactions, searchTerm |-> searchTerm,
     filterType |-> filterType, filterCategory |-> filterCategory,
     shown |-> sortedTransactions(filteredTransactions(transactions, searchTerm,
                                                        filterType, filterCategory))]

\* Transactions handed to the component: a description with a capital, two
\* created in the same millisecond, one with a vendor.
HistoryTransactions ==
    {[id |-> <<"1">>, type |-> "expense", category |-> <<"f", "o", "o", "d">>,
      description |-> <<"L", "u", "n", "c", "h">>, vendor |-> Undef,
      createdAt |-> toISOString(1)],
     [id |-> <<"2">>, type |-> "income", category |-> <<"s", "a", "l", "a", "r", "y">>,
      description |-> <<"p", "a", "y">>, vendor |-> Undef,
      createdAt |-> toISOString(2)],
     [id |-> <<"3">>, type |-> "expense", category |-> <<"f", "o", "o", "d">>,
      description |-> <<"r", "e", "c", "e", "i", "p", "t">>,
      vendor |-> Chs(<<"C", "l", "u", "b">>), createdAt |-> toISOString(2)]}

SearchTerms == {<<>>, <<"L", "U">>, <<"f", "o", "o", "d">>}
FilterTypes == {"all", "income", "expense"}
FilterCategories == {<<"a", "l", "l">>, <<"f", "o", "o", "d">>, <<"s", "a", "l", "a", "r", "y">>}

outsideHistory == <<srvVars, deleted, aggVars, appVars, removed, pending, scanner>>

\* The component is mounted with a list of distinct transactions.
InitHistory ==
    /\ \E transactions \in SeqsUpTo(HistoryTransactions, MaxLen) :
           /\ \A i, j \in 1..Len(transactions) :
                  i # j => transactions[i] # transactions[j]
           /\ history = TransactionHistory(transactions, <<>>, "all", <<"a", "l", "l">>)
    /\ kv = <<>>
    /\ now = 1
    /\ resp = None
    /\ created = {}
    /\ deleted = {}
    /\ input = <<>>
    /\ serverOut = None
    /\ clientOut = None
    /\ appTransactions = <<>>
    /\ useLocalStorage = TRUE
    /\ localStorage = None
    /\ connectionError = ""
    /\ showingLocalMode = TRUE
    /\ analytics = initialAnalytics
    /\ loading = TRUE
    /\ ui = None
    /\ removed = {}
    /\ pending = {}
    /\ scanner = None

setSearchTerm(value) ==
    history' = TransactionHistory(history.transactions, value,
                                  history.filterType, history.filterCategory)

setFilterType(value) ==
    history' = TransactionHistory(history.transactions, history.searchTerm,
                                  value, history.filterCategory)

setFilterCategory(value) ==
    history' = TransactionHistory(history.transactions, history.searchTerm,
                                  history.filterType, value)

NextHistory ==
    \/ \E value \in SearchTerms : setSearchTerm(value) /\ UNCHANGED outsideHistory
    \/ \E value \in FilterTypes : setFilterType(value) /\ UNCHANGED outsideHistory
    \/ \E value \in FilterCategories :
           setFilterCategory(value) /\ UNCHANGED outsideHistory

SpecHistory == InitHistory /\ [][NextHistory]_vars

(***************************************************************************)
(* Properties of the client, checked under SpecClient.                     *)
(***************************************************************************)
\* C20: whenever a request of the client is not answered 2xx (the POST of
\* the form, the DELETE, the scan of a receipt, or the load after one of
\* them), the client is in local-storage mode afterwards and the operation
\* has been carried out on the local storage.
C20_FailureFallsBackToLocal ==
    /\ (ui.k = "op" /\ ui.outcome \in Failures) => useLocalStorage /\ ui.local
    /\ (ui.k = "op" /\ ui.reload \in Failures) => useLocalStorage

\* The records of a list, and the records the browser's storage holds.
Records(list) == {list[i] : i \in 1..Len(list)}
Stored(item) == IF item = None THEN {} ELSE Records(item.list)

\* C21: when the POST of the form or a DELETE fails and the operation is
\* carried out on the local storage instead, the storage afterwards holds
\* every record it held before, less only the records of the deleted id
\* and with at most the one added record.
C21_LocalCopyPreserved ==
    [][(ui'.k = "op" /\ ui'.outcome \in Failures /\ ui'.local) =>
          /\ ui'.op = "submit" =>
                /\ Stored(localStorage) \subseteq Stored(localStorage')
                /\ Cardinality(Stored(localStorage') \ Stored(localStorage)) <= 1
          /\ ui'.op = "delete" =>
                /\ Stored(localStorage') \subseteq Stored(localStorage)
                /\ \E i \in 1..Len(appTransactions) :
                       \A r \in Stored(localStorage) \ Stored(localStorage') :
                           r.id = appTransactions[i].id]_vars

\* A request of the kind waits for its answer.
InFlight(kind) == \E r \in pending : r.kind = kind /\ ~r.aborted

\* C22: every request of the client that waits for its answer eventually
\* stops waiting (answered, failed or aborted), also when the server never
\* answers (checked under SpecAsync, whose fairness makes the timers that
\* were set fire).
C22_EveryCallEnds ==
    \A kind \in {"list", "analytics", "create", "delete", "scan"} :
        InFlight(kind) ~> ~InFlight(kind)

C24_DeletedStayDeleted ==
    (ui.k = "op" /\ ui.op = "mount") =>
        \A i \in 1..Len(appTransactions) : appTransactions[i].id \notin removed

\* C26: once loadData has fallen back to local mode, App shows what the
\* browser's storage holds and the aggregate of it, whatever request of
\* the load is answered afterwards (checked under SpecAsync).
C26_FallbackDisplayKept ==
    (ui # None /\ useLocalStorage /\ connectionError # "" /\ ~loading) =>
        /\ appTransactions = loadTransactionsFromLocal(ClientState)
        /\ analytics = calculateAnalytics(appTransactions)

\* C27: after "Try Server Mode" and the load it starts, either the client
\* is in server mode and the load was answered by the server, or the load
\* failed and the client is in local mode with connectionError set.
C27_TryServerModeAsksServer ==
    (ui.k = "op" /\ ui.op = "tryServer") =>
        \/ ~useLocalStorage /\ ui.reload = "ok"
        \/ useLocalStorage /\ ui.reload \in Failures /\ connectionError # ""

\* C28: a scan made with a preview shown uploads the file that was shown
\* and does not throw 'No file selected' (checked under SpecScanner).
C28_ScanUploadsPreviewedFile ==
    (scanner # None /\ scanner.scan # None) =>
        /\ scanner.scan.uploaded = scanner.scan.shown
        /\ scanner.scan.thrown = ""

\* The letters a search does not tell apart.
SameLetter(a, b) == a = b \/ {a, b} \in {{"c", "C"}, {"l", "L"}, {"u", "U"}}

\* term occurs in text, capitals aside.
Occurs(term, text) ==
    \E at \in 0..(Len(text) - Len(term)) :
        \A j \in 1..Len(term) : SameLetter(text[at + j], term[j])

\* The transaction passes the three filters of the view.
Passes(transaction, view) ==
    /\ \/ Occurs(view.searchTerm, transaction.description)
       \/ Occurs(view.searchTerm, transaction.category)
       \/ transaction.vendor # Undef /\ Occurs(view.searchTerm, transaction.vendor.cs)
    /\ view.filterType \in {"all", transaction.type}
    /\ view.filterCategory \in {<<"a", "l", "l">>, transaction.category}

\* The clock value createdAt was written at.
WrittenAt(createdAt) == CHOOSE t \in 0..999 : toISOString(t) = createdAt

\* C29: TransactionHistory shows exactly the transactions of its list that
\* pass the search term, the type filter and the category filter, each
\* once, and none is created later than one shown before it (checked under
\* SpecHistory).
C29_ShownMatchingNewestFirst ==
    LET shown == history.shown
    IN /\ Records(shown) =
             {t \in Records(history.transactions) : Passes(t, history)}
       /\ Cardinality(Records(shown)) = Len(shown)
       /\ \A i, j \in 1..Len(shown) :
              i < j => WrittenAt(shown[i].createdAt) >= WrittenAt(shown[j].createdAt)

C29_Witness ==
    /\ history.searchTerm = <<"L", "U">>
    /\ Len(history.transactions) = 3
    /\ Len(history.shown) = 2
    /\ history.shown[2] = history.transactions[1]
    /\ WrittenAt(history.shown[1].createdAt) > WrittenAt(history.shown[2].createdAt)

====
